---- MODULE Spec2Model ----
(***************************************************************************)
(* Watch8004Agent.validate_analysis (src/agents/watch_agent.py) as a state *)
(* machine.  Python values are tagged records so that the dynamic typing   *)
(* of the input record (a dict whose nested values may be dicts, lists,    *)
(* strings, numbers or None) and the exceptions Python raises on them are  *)
(* part of the model.                                                      *)
(***************************************************************************)
EXTENDS Integers, Sequences, FiniteSets, TLC

\* ------------------------------------------------------------------------
\* Bounds of the model
\* ------------------------------------------------------------------------
\* longest insights value (list elements, string characters, dict keys)
MaxInsights == 3
\* largest reading of the wall clock, datetime.now()
MaxClock == 1

\* ------------------------------------------------------------------------
\* Python values
\* ------------------------------------------------------------------------
PyNone == [type |-> "NoneType"]
PyInt(n) == [type |-> "int", val |-> n]
\* a str is the sequence of its characters
PyStr(cs) == [type |-> "str", chars |-> cs]
PyList(es) == [type |-> "list", elems |-> es]
\* a dict is a function from its keys (all keys here are str literals)
PyDict(f) == [type |-> "dict", items |-> f]
EmptyDict == PyDict(<<>>)
EmptyList == PyList(<<>>)

\* the characters of the string literals the code uses as keys
Chars(k) ==
  CASE k = "symbol" -> <<"s", "y", "m", "b", "o", "l">>
    [] k = "timestamp" -> <<"t", "i", "m", "e", "s", "t", "a", "m", "p">>
    [] k = "analysis" -> <<"a", "n", "a", "l", "y", "s", "i", "s">>
    [] k = "insights" -> <<"i", "n", "s", "i", "g", "h", "t", "s">>
    [] k = "risk_assessment" ->
         <<"r", "i", "s", "k", "_", "a", "s", "s", "e", "s", "s", "m", "e", "n", "t">>
    [] k = "trend" -> <<"t", "r", "e", "n", "d">>
    [] k = "direction" -> <<"d", "i", "r", "e", "c", "t", "i", "o", "n">>
    [] k = "confidence" -> <<"c", "o", "n", "f", "i", "d", "e", "n", "c", "e">>
    [] k = "price_levels" ->
         <<"p", "r", "i", "c", "e", "_", "l", "e", "v", "e", "l", "s">>
    [] k = "support" -> <<"s", "u", "p", "p", "o", "r", "t">>
    [] k = "resistance" -> <<"r", "e", "s", "i", "s", "t", "a", "n", "c", "e">>
    [] OTHER -> <<k>>

IsSubstring(needle, hay) ==
  \E i \in 0..(Len(hay) - Len(needle)) :
    SubSeq(hay, i + 1, i + Len(needle)) = needle

\* `key in container` for a str literal key: a key of a dict, an element of
\* a list, a substring of a str; TypeError on anything else.
PyIn(key, container) ==
  CASE container.type = "dict" ->
         [raised |-> FALSE, val |-> key \in DOMAIN container.items]
    [] container.type = "list" ->
         [raised |-> FALSE,
          val |-> \E i \in 1..Len(container.elems) :
                     container.elems[i] = PyStr(Chars(key))]
    [] container.type = "str" ->
         [raised |-> FALSE, val |-> IsSubstring(Chars(key), container.chars)]
    [] OTHER -> [raised |-> TRUE, val |-> FALSE]

\* `container[key]` for a str literal key: the value of a dict (KeyError if
\* absent); list and str indices must be integers, the rest is not
\* subscriptable (TypeError).
PyGetItem(container, key) ==
  IF container.type = "dict"
  THEN IF key \in DOMAIN container.items
       THEN [raised |-> FALSE, val |-> container.items[key]]
       ELSE [raised |-> TRUE, val |-> PyNone]
  ELSE [raised |-> TRUE, val |-> PyNone]

\* dict.get(key, default)
PyDictGet(d, key, default) ==
  IF key \in DOMAIN d.items THEN d.items[key] ELSE default

\* len(x): defined on dict, list and str; TypeError on anything else.
PyLen(x) ==
  CASE x.type = "dict" -> [raised |-> FALSE, val |-> Cardinality(DOMAIN x.items)]
    [] x.type = "list" -> [raised |-> FALSE, val |-> Len(x.elems)]
    [] x.type = "str" -> [raised |-> FALSE, val |-> Len(x.chars)]
    [] OTHER -> [raised |-> TRUE, val |-> 0]

Min(a, b) == IF a <= b THEN a ELSE b

\* ------------------------------------------------------------------------
\* validate_analysis, one operator per block of the function body.  st is
\* the pair of locals (score, feedback) plus the exception raised, if any.
\* ------------------------------------------------------------------------
InitLocals == [score |-> 0, feedback |-> <<>>, exc |-> "none"]

Raise(st, e) == [st EXCEPT !.exc = e]

\* Award with the points taken off instead of added
AwardSubtracting(st, points, message) ==
  [st EXCEPT !.score = @ - points, !.feedback = Append(@, message)]

Award(st, points, message) ==
  [st EXCEPT !.score = @ + points, !.feedback = Append(@, message)]

required_fields == <<"symbol", "timestamp", "analysis", "insights">>

\* lines 131-135
CheckRequiredFields(analysis_data, st) ==
  IF \A i \in 1..Len(required_fields) :
       PyIn(required_fields[i], analysis_data).val
  THEN Award(st, 25, "All required fields present")
  ELSE st

\* ValidateTrend with the weight of the price levels rule
ValidateTrendTwentyPoints(analysis_data, st) ==
  LET present == PyIn("trend", PyDictGet(analysis_data, "analysis", EmptyDict))
  IN IF present.raised THEN Raise(st, "TypeError")
     ELSE IF ~present.val THEN st
     ELSE LET got == PyGetItem(analysis_data.items["analysis"], "trend")
          IN IF got.raised THEN Raise(st, "TypeError")
             ELSE LET trend == got.val
                      hasDirection == PyIn("direction", trend)
                      hasConfidence == PyIn("confidence", trend)
                  IN IF hasDirection.raised THEN Raise(st, "TypeError")
                     ELSE IF hasDirection.val /\ hasConfidence.val
                          THEN Award(st, 20, "Trend analysis well-structured")
                          ELSE st

\* lines 137-142
ValidateTrend(analysis_data, st) ==
  LET present == PyIn("trend", PyDictGet(analysis_data, "analysis", EmptyDict))
  IN IF present.raised THEN Raise(st, "TypeError")
     ELSE IF ~present.val THEN st
     ELSE LET got == PyGetItem(analysis_data.items["analysis"], "trend")
          IN IF got.raised THEN Raise(st, "TypeError")
             ELSE LET trend == got.val
                      hasDirection == PyIn("direction", trend)
                      hasConfidence == PyIn("confidence", trend)
                  IN IF hasDirection.raised THEN Raise(st, "TypeError")
                     ELSE IF hasDirection.val /\ hasConfidence.val
                          THEN Award(st, 25, "Trend analysis well-structured")
                          ELSE st

\* ValidatePriceLevels content with either of the two levels
ValidatePriceLevelsEitherLevel(analysis_data, st) ==
  LET present ==
        PyIn("price_levels", PyDictGet(analysis_data, "analysis", EmptyDict))
  IN IF present.raised THEN Raise(st, "TypeError")
     ELSE IF ~present.val THEN st
     ELSE LET got == PyGetItem(analysis_data.items["analysis"], "price_levels")
          IN IF got.raised THEN Raise(st, "TypeError")
             ELSE LET price_levels == got.val
                      hasSupport == PyIn("support", price_levels)
                      hasResistance == PyIn("resistance", price_levels)
                  IN IF hasSupport.raised THEN Raise(st, "TypeError")
                     ELSE IF hasSupport.val \/ hasResistance.val
                          THEN Award(st, 20, "Price levels properly identified")
                          ELSE st

\* lines 144-149
ValidatePriceLevels(analysis_data, st) ==
  LET present ==
        PyIn("price_levels", PyDictGet(analysis_data, "analysis", EmptyDict))
  IN IF present.raised THEN Raise(st, "TypeError")
     ELSE IF ~present.val THEN st
     ELSE LET got == PyGetItem(analysis_data.items["analysis"], "price_levels")
          IN IF got.raised THEN Raise(st, "TypeError")
             ELSE LET price_levels == got.val
                      hasSupport == PyIn("support", price_levels)
                      hasResistance == PyIn("resistance", price_levels)
                  IN IF hasSupport.raised THEN Raise(st, "TypeError")
                     ELSE IF hasSupport.val /\ hasResistance.val
                          THEN Award(st, 20, "Price levels properly identified")
                          ELSE st

\* ValidateInsights asking for more than three insights
ValidateInsightsMoreThanThree(analysis_data, st) ==
  LET insights == PyDictGet(analysis_data, "insights", EmptyList)
      n == PyLen(insights)
  IN IF n.raised THEN Raise(st, "TypeError")
     ELSE IF n.val > 3
          THEN Award(st, 15, "Comprehensive insights provided")
          ELSE st

\* lines 151-155
ValidateInsights(analysis_data, st) ==
  LET insights == PyDictGet(analysis_data, "insights", EmptyList)
      n == PyLen(insights)
  IN IF n.raised THEN Raise(st, "TypeError")
     ELSE IF n.val >= 3
          THEN Award(st, 15, "Comprehensive insights provided")
          ELSE st

\* ValidateRiskAssessment without its membership test
ValidateRiskAssessmentUnchecked(analysis_data, st) ==
  Award(st, 15, "Risk assessment included")

\* ValidateRiskAssessment asking for a value that is not None
ValidateRiskAssessmentNotNone(analysis_data, st) ==
  IF PyDictGet(analysis_data, "risk_assessment", PyNone).type # "NoneType"
  THEN Award(st, 15, "Risk assessment included")
  ELSE st

\* lines 157-160
ValidateRiskAssessment(analysis_data, st) ==
  IF PyIn("risk_assessment", analysis_data).val
  THEN Award(st, 15, "Risk assessment included")
  ELSE st

\* Recommendation with a strict threshold
RecommendationAboveThreshold(score) ==
  IF score > 70 THEN "approved" ELSE "needs_improvement"

Recommendation(score) ==
  IF score >= 70 THEN "approved" ELSE "needs_improvement"

\* lines 162-174
BuildResult(self_name, now, st) ==
  [validator |-> self_name,
   timestamp |-> now,
   score |-> Min(st.score, 100),
   feedback |-> st.feedback,
   methodology |-> "multi-factor_validation",
   criteria |-> [completeness |-> st.score >= 70,
                 structure |-> TRUE,
                 quality |-> st.score >= 80],
   recommendation |-> Recommendation(st.score)]

\* the whole function: the blocks in program order; an exception raised by
\* a block propagates out of the function, skipping the blocks after it.
Then(st, next) == IF st.exc = "none" THEN next ELSE st

RunBody(analysis_data) ==
  LET s1 == CheckRequiredFields(analysis_data, InitLocals)
      s2 == Then(s1, ValidateTrend(analysis_data, s1))
      s3 == Then(s2, ValidatePriceLevels(analysis_data, s2))
      s4 == Then(s3, ValidateInsights(analysis_data, s3))
  IN Then(s4, ValidateRiskAssessment(analysis_data, s4))

\* ------------------------------------------------------------------------
\* Input records
\* ------------------------------------------------------------------------
Absent == [type |-> "absent"]

\* the dict holding the entries of opts that are not Absent
DictOf(opts) ==
  PyDict([k \in {j \in DOMAIN opts : opts[j].type # "absent"} |-> opts[k]])

StrOfLen(n) == PyStr([i \in 1..n |-> "x"])
ListOfLen(n) == PyList([i \in 1..n |-> StrOfLen(1)])
KeyNames == <<"k1", "k2", "k3", "k4", "k5", "k6">>
DictOfLen(n) == PyDict([k \in {KeyNames[i] : i \in 1..n} |-> PyNone])

SymbolOpts == {Absent, PyStr(<<"B", "T", "C">>)}
TimestampOpts == {Absent, PyStr(<<"t">>)}

TrendOpts ==
  {Absent,
   DictOf([direction |-> PyStr(<<"u", "p">>), confidence |-> PyInt(1)]),
   DictOf([direction |-> PyStr(<<"u", "p">>)]),
   PyNone,
   PyStr(Chars("direction") \o <<" ">> \o Chars("confidence")),
   PyList(<<PyStr(Chars("direction")), PyStr(Chars("confidence"))>>)}

PriceLevelsOpts ==
  {Absent,
   DictOf([support |-> PyList(<<PyInt(1)>>), resistance |-> PyList(<<PyInt(2)>>)]),
   DictOf([resistance |-> PyList(<<PyInt(2)>>)]),
   PyInt(0)}

AnalysisOpts ==
  {Absent, PyNone, PyStr(Chars("trend")), PyList(<<PyStr(Chars("trend"))>>)}
    \cup {DictOf([trend |-> t, price_levels |-> p]) :
            t \in TrendOpts, p \in PriceLevelsOpts}

InsightsOpts ==
  {Absent, PyNone, DictOfLen(MaxInsights)}
    \cup {ListOfLen(n) : n \in 0..MaxInsights}
    \cup {StrOfLen(n) : n \in (MaxInsights - 1)..MaxInsights}

RiskAssessmentOpts == {Absent, PyNone, DictOf([level |-> PyStr(<<"l", "o", "w">>)])}

\* an entry validate_analysis never looks at
RecommendationOpts == {Absent, DictOf([action |-> PyStr(<<"h", "o", "l", "d">>)])}

AnalysisRecords ==
  {DictOf([symbol |-> s, timestamp |-> t, analysis |-> a, insights |-> i,
           risk_assessment |-> r, recommendation |-> Absent]) :
     s \in SymbolOpts, t \in TimestampOpts, a \in AnalysisOpts,
     i \in InsightsOpts, r \in RiskAssessmentOpts}
    \cup {DictOf([symbol |-> s, timestamp |-> s, analysis |-> a, insights |-> i,
                  risk_assessment |-> r, recommendation |-> m]) :
            s \in SymbolOpts, a \in {Absent, EmptyDict},
            i \in {Absent, EmptyList}, r \in {Absent, EmptyDict},
            m \in RecommendationOpts}

\* ------------------------------------------------------------------------
\* Agent objects (src/agents/base_agent.py) and the chain they talk to
\* ------------------------------------------------------------------------
\* most agent IDs and request IDs the registries hand out
MaxId == 1
\* most method calls made on the agent
MaxCalls == 3

\* truth value of a Python value, as `not x` and `x or y` take it
PyTruthy(v) ==
  CASE v.type = "NoneType" -> FALSE
    [] v.type = "int" -> v.val # 0
    [] v.type = "str" -> v.chars # <<>>
    [] v.type = "list" -> v.elems # <<>>
    [] v.type = "dict" -> DOMAIN v.items # {}
    [] OTHER -> TRUE

\* the private key run_demo gives its validator, also the default deployer
validator_key == "0xac0974bec39a17e36ba4a6b4d238ff944bacb478cbed5efcae784d7bf4f2ff80"

\* Account.from_key(key).address: one address per key
AddressOf(key) == PyStr(<<"address of ", key>>)

\* ERC8004BaseAgent.__init__
ERC8004BaseAgent(nm, dom, key, identity, reputation, validation) ==
  [name |-> nm,
   domain |-> dom,
   private_key |-> key,
   address |-> AddressOf(key),
   identity_registry_address |-> identity,
   reputation_registry_address |-> reputation,
   validation_registry_address |-> validation,
   agent_id |-> PyNone,
   registration_uri |-> PyNone,
   capabilities |-> <<>>,
   trust_models |-> <<"reputation", "validation">>]

\* Watch8004Agent.__init__
Watch8004Agent(nm, dom, key, identity, reputation, validation) ==
  [ERC8004BaseAgent(nm, dom, key, identity, reputation, validation)
     EXCEPT !.capabilities = <<"market_analysis", "trend_detection",
                               "risk_assessment", "validation_service">>]

\* an agent variable not bound to an object yet
NoAgent == [name |-> "none"]

\* compute_hash: SHA-256 of the JSON text of the data, one hash per value
compute_hash(data) == [sha256 |-> data]

\* what the chain does with a transaction: an error before or while it is
\* sent; sent but no receipt in time; a receipt with status 0 and no event
\* log; a receipt with status 1 and the event carrying a fresh ID
ChainOutcomes == {"not_sent", "no_receipt", "reverted", "success"}

Chains ==
  {[outcome |-> o, id |-> 0] : o \in ChainOutcomes \ {"success"}}
    \cup {[outcome |-> "success", id |-> i] : i \in 0..MaxId}

Tx(self, to, fn, args, status) ==
  [sender |-> self.address, to |-> to, fn |-> fn, args |-> args, status |-> status]

\* the outcome of a method: the object after it, the transactions it sent,
\* the exception it raised and the value it returned
Outcome(self, txs, exc, msg, ret) ==
  [self |-> self, txs |-> txs, exc |-> exc, msg |-> msg, ret |-> ret]

tx_hash == PyStr(<<"tx_hash">>)

\* register_identity storing the registration URI as soon as it is built
register_identity_uri_first(self, chain) ==
  IF ~PyTruthy(self.identity_registry_address)
  THEN Outcome(self, <<>>, "ValueError", "Identity Registry address not set", PyNone)
  ELSE LET registration_uri ==
             PyStr(<<"ipfs://mock/", self.domain, "/registration.json">>)
           early == [self EXCEPT !.registration_uri = registration_uri]
           tx(status) ==
             Tx(self, self.identity_registry_address, "registerAgent",
                [name |-> self.name, domain |-> self.domain,
                 registration_uri |-> registration_uri], status)
       IN CASE chain.outcome = "not_sent" ->
                 Outcome(early, <<>>, "ConnectionError", "", PyNone)
            [] chain.outcome = "no_receipt" ->
                 Outcome(early, <<tx("no_receipt")>>, "TimeExhausted", "", PyNone)
            [] chain.outcome = "reverted" ->
                 Outcome(early, <<tx("reverted")>>, "IndexError", "", PyNone)
            [] OTHER ->
                 Outcome([early EXCEPT !.agent_id = PyInt(chain.id)],
                         <<tx("success")>>, "none", "", PyInt(chain.id))

\* register_identity, lines 118-171
register_identity(self, chain) ==
  IF ~PyTruthy(self.identity_registry_address)
  THEN Outcome(self, <<>>, "ValueError", "Identity Registry address not set", PyNone)
  ELSE LET registration_uri ==
             PyStr(<<"ipfs://mock/", self.domain, "/registration.json">>)
           tx(status) ==
             Tx(self, self.identity_registry_address, "registerAgent",
                [name |-> self.name, domain |-> self.domain,
                 registration_uri |-> registration_uri], status)
       IN CASE chain.outcome = "not_sent" ->
                 Outcome(self, <<>>, "ConnectionError", "", PyNone)
            [] chain.outcome = "no_receipt" ->
                 Outcome(self, <<tx("no_receipt")>>, "TimeExhausted", "", PyNone)
            [] chain.outcome = "reverted" ->
                 Outcome(self, <<tx("reverted")>>, "IndexError", "", PyNone)
            [] OTHER ->
                 Outcome([self EXCEPT !.agent_id = PyInt(chain.id),
                                       !.registration_uri = registration_uri],
                         <<tx("success")>>, "none", "", PyInt(chain.id))

\* authorize_feedback without the check of lines 191-192
authorize_feedback_unregistered(self, client_address, chain) ==
  IF ~PyTruthy(self.reputation_registry_address)
  THEN Outcome(self, <<>>, "ValueError", "Reputation Registry address not set", PyNone)
  ELSE LET tx(status) ==
             Tx(self, self.reputation_registry_address, "authorizeFeedback",
                [agent_id |-> self.agent_id, client_address |-> client_address],
                status)
       IN CASE chain.outcome = "not_sent" ->
                 Outcome(self, <<>>, "ConnectionError", "", PyNone)
            [] chain.outcome = "no_receipt" ->
                 Outcome(self, <<tx("no_receipt")>>, "TimeExhausted", "", PyNone)
            [] chain.outcome = "reverted" ->
                 Outcome(self, <<tx("reverted")>>, "none", "", tx_hash)
            [] OTHER ->
                 Outcome(self, <<tx("success")>>, "none", "", tx_hash)

\* authorize_feedback, lines 173-219
authorize_feedback(self, client_address, chain) ==
  IF ~PyTruthy(self.reputation_registry_address)
  THEN Outcome(self, <<>>, "ValueError", "Reputation Registry address not set", PyNone)
  ELSE IF ~PyTruthy(self.agent_id)
  THEN Outcome(self, <<>>, "ValueError", "Agent not registered", PyNone)
  ELSE LET tx(status) ==
             Tx(self, self.reputation_registry_address, "authorizeFeedback",
                [agent_id |-> self.agent_id, client_address |-> client_address],
                status)
       IN CASE chain.outcome = "not_sent" ->
                 Outcome(self, <<>>, "ConnectionError", "", PyNone)
            [] chain.outcome = "no_receipt" ->
                 Outcome(self, <<tx("no_receipt")>>, "TimeExhausted", "", PyNone)
            [] chain.outcome = "reverted" ->
                 Outcome(self, <<tx("reverted")>>, "none", "", tx_hash)
            [] OTHER ->
                 Outcome(self, <<tx("success")>>, "none", "", tx_hash)

\* request_validation, lines 221-280
request_validation(self, validator_id, work_data, chain) ==
  IF ~PyTruthy(self.validation_registry_address)
  THEN Outcome(self, <<>>, "ValueError", "Validation Registry address not set", PyNone)
  ELSE IF ~PyTruthy(self.agent_id)
  THEN Outcome(self, <<>>, "ValueError", "Agent not registered", PyNone)
  ELSE LET work_hash == compute_hash(work_data)
           tx(status) ==
             Tx(self, self.validation_registry_address, "requestValidation",
                [agent_id |-> self.agent_id, validator_id |-> validator_id,
                 work_hash |-> work_hash], status)
       IN CASE chain.outcome = "not_sent" ->
                 Outcome(self, <<>>, "ConnectionError", "", PyNone)
            [] chain.outcome = "no_receipt" ->
                 Outcome(self, <<tx("no_receipt")>>, "TimeExhausted", "", PyNone)
            [] chain.outcome = "reverted" ->
                 Outcome(self, <<tx("reverted")>>, "IndexError", "", PyNone)
            [] OTHER ->
                 Outcome(self, <<tx("success")>>, "none", "", PyInt(chain.id))

\* submit_validation_response, lines 282-337
submit_validation_response(self, request_id, score, response_data, chain) ==
  IF ~PyTruthy(self.validation_registry_address)
  THEN Outcome(self, <<>>, "ValueError", "Validation Registry address not set", PyNone)
  ELSE LET response_hash == compute_hash(response_data)
           tx(status) ==
             Tx(self, self.validation_registry_address, "submitValidationResponse",
                [request_id |-> request_id, score |-> score,
                 response_hash |-> response_hash], status)
       IN CASE chain.outcome = "not_sent" ->
                 Outcome(self, <<>>, "ConnectionError", "", PyNone)
            [] chain.outcome = "no_receipt" ->
                 Outcome(self, <<tx("no_receipt")>>, "TimeExhausted", "", PyNone)
            [] chain.outcome = "reverted" ->
                 Outcome(self, <<tx("reverted")>>, "none", "", tx_hash)
            [] OTHER ->
                 Outcome(self, <<tx("success")>>, "none", "", tx_hash)

\* ------------------------------------------------------------------------
\* analyze_market and perform_task (src/agents/watch_agent.py)
\* ------------------------------------------------------------------------
PyFloat(repr) == [type |-> "float", repr |-> repr]
PyBool(b) == [type |-> "bool", val |-> b]
\* a str that no code looks into, kept in one piece
Text(t) == PyStr(<<t>>)

DigitChars == <<"0", "1", "2", "3", "4", "5", "6", "7", "8", "9">>
\* datetime.isoformat(): one text per clock reading
IsoFormat(now) == PyStr(<<"T", DigitChars[now + 1]>>)

\* analyze_market, lines 57-111
analyze_market(symbol, now) ==
  PyDict(
    [symbol |-> symbol,
     timestamp |-> IsoFormat(now),
     analysis |-> PyDict(
       [trend |-> PyDict([direction |-> Text("bullish"),
                          strength |-> PyFloat("7.5"),
                          confidence |-> PyFloat("0.82")]),
        price_levels |-> PyDict(
          [current |-> PyFloat("95420.50"),
           support |-> PyList(<<PyInt(93000), PyInt(90000), PyInt(87500)>>),
           resistance |-> PyList(<<PyInt(97000), PyInt(100000), PyInt(105000)>>)]),
        indicators |-> PyDict(
          [rsi |-> PyFloat("62.3"),
           macd |-> Text("positive_crossover"),
           moving_averages |-> PyDict([ma_50 |-> PyInt(92340),
                                       ma_200 |-> PyInt(87650),
                                       golden_cross |-> PyBool(TRUE)])]),
        volume |-> PyDict([current |-> PyFloat("28.5"),
                           average |-> PyFloat("24.2"),
                           trend |-> Text("increasing")])]),
     insights |-> PyList(
       <<Text("Strong bullish momentum with RSI in healthy territory"),
         Text("Golden cross confirmed, suggesting sustained upward trend"),
         Text("Volume increasing, supporting price movement"),
         Text("Key resistance at $100,000 psychological level")>>),
     risk_assessment |-> PyDict(
       [level |-> Text("moderate"),
        factors |-> PyList(<<Text("Approaching major resistance zone"),
                             Text("Market volatility remains elevated"),
                             Text("Strong technical support established")>>)]),
     recommendation |-> PyDict(
       [action |-> Text("hold_with_potential_accumulation"),
        confidence |-> PyFloat("0.78"),
        reasoning |-> Text("Strong technical setup with manageable risk")])])

BTC == PyStr(<<"B", "T", "C">>)
ETH == PyStr(<<"E", "T", "H">>)

\* the tasks given to perform_task: its type, and its data (None, or a
\* mapping that may hold a symbol or an analysis record)
TaskTypes == {"market_analysis", "validate_analysis", "generate_report"}

TaskDatas ==
  {PyNone, EmptyDict, PyDict([symbol |-> ETH])}
    \cup {PyDict([analysis |-> r]) :
            r \in {EmptyDict, analyze_market(BTC, 0),
                   PyDict([analysis |-> PyNone, risk_assessment |-> PyNone])}}

\* line 193: task_data = task_data or {}
TaskDataOrEmpty(task_data) == IF PyTruthy(task_data) THEN task_data ELSE EmptyDict

NoCall ==
  [n |-> 0, op |-> "none", args |-> [none |-> TRUE],
   exc |-> "none", msg |-> "", ret |-> PyNone]

\* the record of call number n
CallRecord(n, op, args, exc, msg, ret) ==
  [n |-> n, op |-> op, args |-> args, exc |-> exc, msg |-> msg, ret |-> ret]

AgentNames == {"Watch8004", "ValidatorAgent"}

NoResult == [validator |-> "none"]

\* ------------------------------------------------------------------------
\* State
\* ------------------------------------------------------------------------
VARIABLES
  name,               \* self.name of the agent
  clock,              \* the last reading of datetime.now()
  pc,                 \* position in validate_analysis
  analysis_data,      \* its argument
  locals,             \* its locals score and feedback, and a raised exception
  validation_result,  \* the value it returned
  prev_result,        \* what the call before returned for the same record
  agent,              \* the fields of the agent object (self; agent in run_demo)
  validator,          \* the fields of the second agent object of run_demo
  transactions,       \* the transactions sent to the chain, oldest first
  call,               \* the last method call made on an agent and its outcome
  demo,               \* position and locals of run_demo
  deploy,             \* position and locals of deploy_contracts
  files,              \* contracts/deployment.json and the files under data/
  events              \* what run_demo has completed so far, oldest first

validateVars ==
  <<name, clock, pc, analysis_data, locals, validation_result, prev_result>>
agentVars == <<agent, validator, transactions, call>>
demoVars == <<demo, deploy, files, events>>

vars == <<validateVars, agentVars, demoVars>>

\* the registry addresses a constructor may be given
identity_address == Text("0xIdentityRegistry")
reputation_address == Text("0xReputationRegistry")
validation_address == Text("0xValidationRegistry")

user_key == "0xPRIVATE_KEY"

DomainOf(nm) ==
  IF nm = "Watch8004" THEN "watch8004.example.com" ELSE "validator.example.com"

\* run_demo and deploy_contracts not started, nothing written
DemoIdle ==
  [pc |-> "idle", private_key |-> "unset", contracts |-> PyNone,
   analysis |-> PyNone, validation |-> PyNone, validator_id |-> PyNone,
   request_id |-> PyNone, failed |-> "none"]
DeployIdle ==
  [pc |-> "idle", private_key |-> "unset", deployed |-> EmptyDict,
   at |-> "none", exc |-> "none"]
NoFiles == [deployment_json |-> PyNone, abi |-> {}, data |-> {}]

ValidateInit ==
  /\ clock = 0
  /\ pc = "idle"
  /\ analysis_data = EmptyDict
  /\ locals = InitLocals
  /\ validation_result = NoResult
  /\ prev_result = NoResult

NothingElseInit ==
  /\ validator = NoAgent
  /\ transactions = <<>>
  /\ call = NoCall
  /\ demo = DemoIdle
  /\ deploy = DeployIdle
  /\ files = NoFiles
  /\ events = <<>>

\* an agent built with the defaults of the constructor, about to validate
Init ==
  /\ name \in AgentNames
  /\ ValidateInit
  /\ agent = Watch8004Agent(name, DomainOf(name), user_key, PyNone, PyNone, PyNone)
  /\ NothingElseInit

\* a caller enters validate_analysis(d); lines 128-129 set the locals
Call(d) ==
  /\ pc = "idle"
  /\ analysis_data' = d
  /\ locals' = InitLocals
  /\ pc' = "required_fields"
  /\ UNCHANGED <<name, clock, validation_result, prev_result>>
  /\ UNCHANGED <<agentVars, demoVars>>

\* CallAgain without lines 128-129: score and feedback live on
CallAgainKeepingLocals ==
  /\ pc = "returned"
  /\ prev_result' = validation_result
  /\ validation_result' = NoResult
  /\ pc' = "required_fields"
  /\ UNCHANGED <<name, clock, analysis_data, locals>>
  /\ UNCHANGED <<agentVars, demoVars>>

\* the caller calls again with the record of the call that returned
CallAgain ==
  /\ pc = "returned"
  /\ locals' = InitLocals
  /\ prev_result' = validation_result
  /\ validation_result' = NoResult
  /\ pc' = "required_fields"
  /\ UNCHANGED <<name, clock, analysis_data>>
  /\ UNCHANGED <<agentVars, demoVars>>

\* Block taking the insights out of the record (pop for get at line 152)
BlockPoppingInsights(at, after, st) ==
  /\ pc = at
  /\ locals' = st
  /\ pc' = IF st.exc = "none" THEN after ELSE "raised"
  /\ analysis_data' =
       IF at = "insights"
       THEN PyDict([k \in DOMAIN analysis_data.items \ {"insights"} |->
                      analysis_data.items[k]])
       ELSE analysis_data
  /\ UNCHANGED <<name, clock, validation_result, prev_result>>
  /\ UNCHANGED <<agentVars, demoVars>>

\* one block of the body; an exception leaves the function
Block(at, after, st) ==
  /\ pc = at
  /\ locals' = st
  /\ pc' = IF st.exc = "none" THEN after ELSE "raised"
  /\ UNCHANGED <<name, clock, analysis_data, validation_result, prev_result>>
  /\ UNCHANGED <<agentVars, demoVars>>

RequiredFieldsBlock ==
  Block("required_fields", "trend", CheckRequiredFields(analysis_data, locals))

TrendBlock ==
  Block("trend", "price_levels", ValidateTrend(analysis_data, locals))

PriceLevelsBlock ==
  Block("price_levels", "insights", ValidatePriceLevels(analysis_data, locals))

InsightsBlock ==
  Block("insights", "risk_assessment", ValidateInsights(analysis_data, locals))

RiskAssessmentBlock ==
  Block("risk_assessment", "result", ValidateRiskAssessment(analysis_data, locals))

\* lines 162-180: datetime.now() reads a clock that never runs backwards
Return ==
  /\ pc = "result"
  /\ \E now \in clock..MaxClock :
       /\ clock' = now
       /\ validation_result' = BuildResult(name, now, locals)
  /\ pc' = "returned"
  /\ UNCHANGED <<name, analysis_data, locals, prev_result>>
  /\ UNCHANGED <<agentVars, demoVars>>

Next ==
  \/ \E d \in AnalysisRecords : Call(d)
  \/ CallAgain
  \/ RequiredFieldsBlock
  \/ TrendBlock
  \/ PriceLevelsBlock
  \/ InsightsBlock
  \/ RiskAssessmentBlock
  \/ Return

Spec == Init /\ [][Next]_vars

\* ------------------------------------------------------------------------
\* One agent object and the methods a caller may invoke on it, one call at
\* a time
\* ------------------------------------------------------------------------
AgentInit ==
  /\ name = "Watch8004"
  /\ ValidateInit
  /\ \E identity \in {PyNone, identity_address},
        reputation \in {PyNone, reputation_address},
        validation \in {PyNone, validation_address} :
       agent = Watch8004Agent(name, DomainOf(name), user_key,
                              identity, reputation, validation)
  /\ NothingElseInit

\* no method is running and the caller has calls left
CanCall == pc \in {"idle", "returned", "raised"} /\ call.n < MaxCalls

\* a method of the agent has run to its end with outcome r
Finish(r, op, args) ==
  /\ agent' = r.self
  /\ transactions' = transactions \o r.txs
  /\ call' = CallRecord(call.n + 1, op, args, r.exc, r.msg, r.ret)
  /\ UNCHANGED <<validateVars, validator, demoVars>>

RegisterIdentity ==
  /\ CanCall
  /\ \E chain \in Chains :
       Finish(register_identity(agent, chain), "register_identity",
              [contract_abi |-> "IdentityRegistry"])

AuthorizeFeedback ==
  /\ CanCall
  /\ \E chain \in Chains :
       Finish(authorize_feedback(agent, AddressOf(validator_key), chain),
              "authorize_feedback", [client_address |-> AddressOf(validator_key)])

RequestValidation ==
  /\ CanCall
  /\ \E validator_id \in 0..MaxId, chain \in Chains :
       Finish(request_validation(agent, PyInt(validator_id),
                                 analyze_market(BTC, 0), chain),
              "request_validation", [validator_id |-> PyInt(validator_id)])

SubmitValidationResponse ==
  /\ CanCall
  /\ \E request_id \in 0..MaxId, chain \in Chains :
       Finish(submit_validation_response(agent, PyInt(request_id), 100,
                                         EmptyDict, chain),
              "submit_validation_response", [request_id |-> PyInt(request_id)])

\* PerformTask handing the whole task data to validate_analysis
PerformTaskValidatingTaskData(task_type, task_data) ==
  LET data == TaskDataOrEmpty(task_data)
      args == [task_type |-> task_type, task_data |-> task_data]
  IN /\ CanCall
     /\ CASE task_type = "market_analysis" ->
               \E now \in clock..MaxClock :
                 /\ clock' = now
                 /\ call' = CallRecord(call.n + 1, "perform_task", args, "none", "",
                                       analyze_market(PyDictGet(data, "symbol", BTC), now))
                 /\ UNCHANGED <<name, pc, analysis_data, locals,
                                validation_result, prev_result>>
          [] task_type = "validate_analysis" ->
               /\ analysis_data' = data
               /\ locals' = InitLocals
               /\ pc' = "required_fields"
               /\ validation_result' = NoResult
               /\ prev_result' = NoResult
               /\ call' = CallRecord(call.n + 1, "perform_task", args, "none", "", PyNone)
               /\ UNCHANGED <<name, clock>>
          [] OTHER ->
               /\ call' = CallRecord(call.n + 1, "perform_task", args, "ValueError",
                                     "Unknown task type", PyNone)
               /\ UNCHANGED validateVars
     /\ UNCHANGED <<agent, validator, transactions, demoVars>>

\* perform_task, lines 182-204
PerformTask(task_type, task_data) ==
  LET data == TaskDataOrEmpty(task_data)
      args == [task_type |-> task_type, task_data |-> task_data]
  IN /\ CanCall
     /\ CASE task_type = "market_analysis" ->
               \E now \in clock..MaxClock :
                 /\ clock' = now
                 /\ call' = CallRecord(call.n + 1, "perform_task", args, "none", "",
                                       analyze_market(PyDictGet(data, "symbol", BTC), now))
                 /\ UNCHANGED <<name, pc, analysis_data, locals,
                                validation_result, prev_result>>
          [] task_type = "validate_analysis" ->
               /\ analysis_data' = PyDictGet(data, "analysis", EmptyDict)
               /\ locals' = InitLocals
               /\ pc' = "required_fields"
               /\ validation_result' = NoResult
               /\ prev_result' = NoResult
               /\ call' = CallRecord(call.n + 1, "perform_task", args, "none", "", PyNone)
               /\ UNCHANGED <<name, clock>>
          [] OTHER ->
               /\ call' = CallRecord(call.n + 1, "perform_task", args, "ValueError",
                                     "Unknown task type", PyNone)
               /\ UNCHANGED validateVars
     /\ UNCHANGED <<agent, validator, transactions, demoVars>>

AgentNext ==
  \/ RegisterIdentity
  \/ AuthorizeFeedback
  \/ RequestValidation
  \/ SubmitValidationResponse
  \/ \E task_type \in TaskTypes, task_data \in TaskDatas :
       PerformTask(task_type, task_data)
  \/ RequiredFieldsBlock
  \/ TrendBlock
  \/ PriceLevelsBlock
  \/ InsightsBlock
  \/ RiskAssessmentBlock
  \/ Return

SpecAgent == AgentInit /\ [][AgentNext]_vars

\* ------------------------------------------------------------------------
\* deploy_contracts (src/scripts/deploy.py)
\* ------------------------------------------------------------------------
Registries == <<"identity", "reputation", "validation">>

ContractName(k) ==
  CASE k = "identity" -> "IdentityRegistry"
    [] k = "reputation" -> "ReputationRegistry"
    [] OTHER -> "ValidationRegistry"

\* receipt['contractAddress'] of the deployment of registry k
ContractAddress(k) ==
  CASE k = "identity" -> identity_address
    [] k = "reputation" -> reputation_address
    [] OTHER -> validation_address

\* what follows the block of registry k in deploy_contracts
AfterRegistry(k) ==
  CASE k = "identity" -> "reputation"
    [] k = "reputation" -> "validation"
    [] OTHER -> "write"

\* how one block of deploy_contracts ends: compile_contract raises; the
\* transaction is not sent; no receipt comes; the receipt has status 0; the
\* contract is deployed and save_contract_abi raises; all of it succeeds
DeployOutcomes ==
  {"compile_error", "not_sent", "no_receipt", "reverted", "abi_not_saved", "success"}

\* the deployment transaction of deploy_contract
DeployTx(key, k, status) ==
  [sender |-> AddressOf(key), to |-> PyNone, fn |-> "constructor",
   args |-> [contract |-> ContractName(k), address |-> ContractAddress(k)],
   status |-> status]

\* the environment variable PRIVATE_KEY: unset, empty or a key
PrivateKeys == {"unset", "", user_key, validator_key}

KeyIsFalsy(key) == key \in {"unset", ""}

\* lines 152-169: the default key, the connection, the empty mapping
deploy_contracts(private_key, connected) ==
  [pc |-> IF connected THEN "identity" ELSE "raised",
   private_key |-> IF KeyIsFalsy(private_key) THEN validator_key ELSE private_key,
   deployed |-> EmptyDict,
   at |-> "setup",
   exc |-> IF connected THEN "none" ELSE "not_connected"]

\* the receipt status of a deployment that was sent
StatusOf(outcome) ==
  CASE outcome = "no_receipt" -> "no_receipt"
    [] outcome = "reverted" -> "reverted"
    [] OTHER -> "success"

\* a block of deploy_contracts going on after a receipt with status 0
\* (deploy_contract without the check of lines 117-121)
DeployRegistryUncheckedStatus(k) ==
  /\ deploy.pc = k
  /\ \E outcome \in DeployOutcomes :
       LET sent == outcome \notin {"compile_error", "not_sent"}
           done == outcome \in {"success", "reverted"}
       IN /\ transactions' =
               IF sent
               THEN Append(transactions,
                           DeployTx(deploy.private_key, k, StatusOf(outcome)))
               ELSE transactions
          /\ deploy' =
               IF done
               THEN [deploy EXCEPT
                       !.pc = AfterRegistry(k),
                       !.at = k,
                       !.deployed = PyDict([j \in DOMAIN @.items \cup {k} |->
                                              IF j = k THEN ContractAddress(k)
                                              ELSE @.items[j]])]
               ELSE [deploy EXCEPT !.pc = "raised", !.at = k, !.exc = outcome]
          /\ files' = IF done
                      THEN [files EXCEPT !.abi = @ \cup {ContractName(k)}]
                      ELSE files
          /\ events' = IF done
                       THEN Append(events, [ev |-> "deployed", contract |-> k])
                       ELSE events
  /\ UNCHANGED <<validateVars, agent, validator, call, demo>>

\* one block of deploy_contracts (lines 173-180, 184-191, 195-202):
\* compile_contract, deploy_contract, save_contract_abi, deployed[k]
DeployRegistry(k) ==
  /\ deploy.pc = k
  /\ \E outcome \in DeployOutcomes :
       LET sent == outcome \notin {"compile_error", "not_sent"}
           done == outcome = "success"
       IN /\ transactions' =
               IF sent
               THEN Append(transactions,
                           DeployTx(deploy.private_key, k, StatusOf(outcome)))
               ELSE transactions
          /\ deploy' =
               IF done
               THEN [deploy EXCEPT
                       !.pc = AfterRegistry(k),
                       !.at = k,
                       !.deployed = PyDict([j \in DOMAIN @.items \cup {k} |->
                                              IF j = k THEN ContractAddress(k)
                                              ELSE @.items[j]])]
               ELSE [deploy EXCEPT !.pc = "raised", !.at = k, !.exc = outcome]
          /\ files' = IF done
                      THEN [files EXCEPT !.abi = @ \cup {ContractName(k)}]
                      ELSE files
          /\ events' = IF done
                       THEN Append(events, [ev |-> "deployed", contract |-> k])
                       ELSE events
  /\ UNCHANGED <<validateVars, agent, validator, call, demo>>

DeployIdentity == DeployRegistry("identity")
DeployReputation == DeployRegistry("reputation")
DeployValidation == DeployRegistry("validation")

\* lines 205-219: deployment.json is written, or the chain id cannot be read
\* or the file cannot be opened
DeploySave ==
  /\ deploy.pc = "write"
  /\ \E written \in BOOLEAN :
       IF written
       THEN /\ files' = [files EXCEPT !.deployment_json =
                           PyDict([deployer |-> AddressOf(deploy.private_key),
                                   contracts |-> deploy.deployed])]
            /\ deploy' = [deploy EXCEPT !.pc = "returned", !.at = "write"]
       ELSE /\ files' = files
            /\ deploy' = [deploy EXCEPT !.pc = "raised", !.at = "write",
                                        !.exc = "not_written"]
  /\ UNCHANGED <<validateVars, agentVars, demo, events>>

\* ------------------------------------------------------------------------
\* run_demo (src/main.py)
\* ------------------------------------------------------------------------
\* the score the summary prints
SummaryScore == 96

\* an except block of run_demo: the error is printed and run_demo returns
Except(d, step) == [d EXCEPT !.pc = "failed", !.failed = step]

Error(step) == [ev |-> "error", step |-> step]

\* a method called by run_demo has run to its end with outcome r
DemoCall(r, op, args) ==
  /\ transactions' = transactions \o r.txs
  /\ call' = CallRecord(call.n + 1, op, args, r.exc, r.msg, r.ret)

DemoInit ==
  /\ name = "Watch8004"
  /\ ValidateInit
  /\ agent = NoAgent
  /\ NothingElseInit

\* lines 28-43 and the setup of deploy_contracts
DemoStart ==
  /\ demo.pc = "idle"
  /\ \E key \in PrivateKeys :
       IF KeyIsFalsy(key)
       THEN /\ demo' = Except([demo EXCEPT !.private_key = key], "private_key")
            /\ events' = Append(events, Error("private_key"))
            /\ deploy' = deploy
       ELSE /\ demo' = [demo EXCEPT !.pc = "deploy", !.private_key = key]
            /\ events' = events
            /\ \E connected \in BOOLEAN : deploy' = deploy_contracts(key, connected)
  /\ UNCHANGED <<validateVars, agentVars, files>>

\* lines 43-63: deploy_contracts has returned or raised; the agent is built
DemoDeployed ==
  /\ demo.pc = "deploy"
  /\ deploy.pc \in {"returned", "raised"}
  /\ IF deploy.pc = "returned"
     THEN /\ demo' = [demo EXCEPT !.pc = "register", !.contracts = deploy.deployed]
          /\ agent' = Watch8004Agent("Watch8004", "watch8004.example.com",
                                     demo.private_key,
                                     PyGetItem(deploy.deployed, "identity").val,
                                     PyGetItem(deploy.deployed, "reputation").val,
                                     PyGetItem(deploy.deployed, "validation").val)
          /\ events' = events
     ELSE /\ demo' = Except(demo, "deploy")
          /\ agent' = agent
          /\ events' = Append(events, Error("deploy"))
  /\ UNCHANGED <<validateVars, validator, transactions, call, deploy, files>>

\* lines 68-78
DemoRegister ==
  /\ demo.pc = "register"
  /\ \E chain \in Chains :
       LET r == register_identity(agent, chain)
       IN /\ DemoCall(r, "register_identity", [agent |-> "Watch8004"])
          /\ agent' = r.self
          /\ IF r.exc = "none"
             THEN /\ demo' = [demo EXCEPT !.pc = "analysis"]
                  /\ events' = Append(events, [ev |-> "registered",
                                               who |-> agent.name,
                                               agent_id |-> r.ret])
             ELSE /\ demo' = Except(demo, "register")
                  /\ events' = Append(events, Error("register"))
  /\ UNCHANGED <<validateVars, validator, deploy, files>>

\* lines 83-103: the analysis, its two files and its report
DemoAnalysis ==
  /\ demo.pc = "analysis"
  /\ \E now \in clock..MaxClock,
        saved \in {"none", "json", "all"} :
       /\ clock' = now
       /\ files' = [files EXCEPT !.data =
                      @ \cup CASE saved = "none" -> {}
                               [] saved = "json" -> {"btc_analysis.json"}
                               [] OTHER -> {"btc_analysis.json",
                                            "btc_analysis_report.txt"}]
       /\ IF saved = "all"
          THEN /\ demo' = [demo EXCEPT !.pc = "validation",
                                       !.analysis = analyze_market(BTC, now)]
               /\ events' = Append(events, [ev |-> "analysed", symbol |-> BTC])
          ELSE /\ demo' = Except([demo EXCEPT !.analysis = analyze_market(BTC, now)],
                                 "analysis")
               /\ events' = Append(events, Error("analysis"))
  /\ UNCHANGED <<name, pc, analysis_data, locals, validation_result, prev_result>>
  /\ UNCHANGED <<agentVars, deploy>>

\* line 109: validate_analysis is entered with the analysis
DemoValidate ==
  /\ demo.pc = "validation"
  /\ demo' = [demo EXCEPT !.pc = "validating"]
  /\ analysis_data' = demo.analysis
  /\ locals' = InitLocals
  /\ pc' = "required_fields"
  /\ validation_result' = NoResult
  /\ prev_result' = NoResult
  /\ UNCHANGED <<name, clock, agentVars, deploy, files, events>>

\* lines 109-125: validate_analysis has returned or raised; the result is
\* printed and saved
DemoValidated ==
  /\ demo.pc = "validating"
  /\ pc \in {"returned", "raised"}
  /\ \E saved \in BOOLEAN :
       IF pc = "returned" /\ saved
       THEN /\ demo' = [demo EXCEPT !.pc = "register_validator",
                                    !.validation = validation_result]
            /\ files' = [files EXCEPT !.data = @ \cup {"btc_validation.json"}]
            /\ events' = Append(events, [ev |-> "validated",
                                         score |-> validation_result.score])
       ELSE /\ demo' = Except(demo, "validation")
            /\ files' = files
            /\ events' = Append(events, Error("validation"))
  /\ UNCHANGED <<validateVars, agentVars, deploy>>

\* lines 133-147: the validator is built and registered
DemoRegisterValidator ==
  /\ demo.pc = "register_validator"
  /\ \E chain \in Chains :
       LET built == Watch8004Agent("ValidatorAgent", "validator.example.com",
                                   validator_key,
                                   PyGetItem(demo.contracts, "identity").val,
                                   PyGetItem(demo.contracts, "reputation").val,
                                   PyGetItem(demo.contracts, "validation").val)
           r == register_identity(built, chain)
       IN /\ DemoCall(r, "register_identity", [agent |-> "ValidatorAgent"])
          /\ validator' = r.self
          /\ IF r.exc = "none"
             THEN /\ demo' = [demo EXCEPT !.pc = "request", !.validator_id = r.ret]
                  /\ events' = Append(events, [ev |-> "registered",
                                               who |-> built.name,
                                               agent_id |-> r.ret])
             ELSE /\ demo' = Except(demo, "onchain_validation")
                  /\ events' = Append(events, Error("onchain_validation"))
  /\ UNCHANGED <<validateVars, agent, deploy, files>>

\* lines 150-157
DemoRequestValidation ==
  /\ demo.pc = "request"
  /\ \E chain \in Chains :
       LET r == request_validation(agent, demo.validator_id, demo.analysis, chain)
       IN /\ DemoCall(r, "request_validation", [validator_id |-> demo.validator_id])
          /\ agent' = r.self
          /\ IF r.exc = "none"
             THEN /\ demo' = [demo EXCEPT !.pc = "respond", !.request_id = r.ret]
                  /\ events' = Append(events, [ev |-> "requested",
                                               by |-> agent.name,
                                               validator_id |-> demo.validator_id,
                                               request_id |-> r.ret])
             ELSE /\ demo' = Except(demo, "onchain_validation")
                  /\ events' = Append(events, Error("onchain_validation"))
  /\ UNCHANGED <<validateVars, validator, deploy, files>>

\* the response carrying the score of the summary
DemoSubmitResponseSummaryScore ==
  /\ demo.pc = "respond"
  /\ \E chain \in Chains :
       LET score == SummaryScore
           r == submit_validation_response(validator, demo.request_id, score,
                                           demo.validation, chain)
       IN /\ DemoCall(r, "submit_validation_response",
                      [request_id |-> demo.request_id, score |-> score])
          /\ validator' = r.self
          /\ IF r.exc = "none"
             THEN /\ demo' = [demo EXCEPT !.pc = "authorize"]
                  /\ events' = Append(events, [ev |-> "responded",
                                               by |-> validator.name,
                                               request_id |-> demo.request_id,
                                               score |-> score])
             ELSE /\ demo' = Except(demo, "onchain_validation")
                  /\ events' = Append(events, Error("onchain_validation"))
  /\ UNCHANGED <<validateVars, agent, deploy, files>>

\* lines 160-173
DemoSubmitResponse ==
  /\ demo.pc = "respond"
  /\ \E chain \in Chains :
       LET score == demo.validation.score
           r == submit_validation_response(validator, demo.request_id, score,
                                           demo.validation, chain)
       IN /\ DemoCall(r, "submit_validation_response",
                      [request_id |-> demo.request_id, score |-> score])
          /\ validator' = r.self
          /\ IF r.exc = "none"
             THEN /\ demo' = [demo EXCEPT !.pc = "authorize"]
                  /\ events' = Append(events, [ev |-> "responded",
                                               by |-> validator.name,
                                               request_id |-> demo.request_id,
                                               score |-> score])
             ELSE /\ demo' = Except(demo, "onchain_validation")
                  /\ events' = Append(events, Error("onchain_validation"))
  /\ UNCHANGED <<validateVars, agent, deploy, files>>

\* the step of lines 178-192 without the return of line 192
DemoAuthorizeFeedbackWithoutReturn ==
  /\ demo.pc = "authorize"
  /\ \E chain \in Chains :
       LET r == authorize_feedback(agent, validator.address, chain)
       IN /\ DemoCall(r, "authorize_feedback", [client_address |-> validator.address])
          /\ agent' = r.self
          /\ IF r.exc = "none"
             THEN /\ demo' = [demo EXCEPT !.pc = "summary"]
                  /\ events' = Append(events, [ev |-> "authorized",
                                               by |-> agent.name,
                                               client_address |-> validator.address])
             ELSE /\ demo' = [demo EXCEPT !.pc = "summary",
                                          !.failed = "authorize_feedback"]
                  /\ events' = Append(events, Error("authorize_feedback"))
  /\ UNCHANGED <<validateVars, validator, deploy, files>>

\* lines 178-192
DemoAuthorizeFeedback ==
  /\ demo.pc = "authorize"
  /\ \E chain \in Chains :
       LET r == authorize_feedback(agent, validator.address, chain)
       IN /\ DemoCall(r, "authorize_feedback", [client_address |-> validator.address])
          /\ agent' = r.self
          /\ IF r.exc = "none"
             THEN /\ demo' = [demo EXCEPT !.pc = "summary"]
                  /\ events' = Append(events, [ev |-> "authorized",
                                               by |-> agent.name,
                                               client_address |-> validator.address])
             ELSE /\ demo' = Except(demo, "authorize_feedback")
                  /\ events' = Append(events, Error("authorize_feedback"))
  /\ UNCHANGED <<validateVars, validator, deploy, files>>

\* lines 195-233: the summary is printed, unless the chain id cannot be read
DemoSummary ==
  /\ demo.pc = "summary"
  /\ \E connected \in BOOLEAN :
       IF connected
       THEN /\ demo' = [demo EXCEPT !.pc = "done"]
            /\ events' = Append(events, [ev |-> "summary",
                                         score |-> SummaryScore,
                                         main_id |-> agent.agent_id,
                                         validator_id |-> validator.agent_id])
       ELSE /\ demo' = [demo EXCEPT !.pc = "raised"]
            /\ events' = events
  /\ UNCHANGED <<validateVars, agentVars, deploy, files>>

DemoNext ==
  \/ DemoStart
  \/ DeployIdentity
  \/ DeployReputation
  \/ DeployValidation
  \/ DeploySave
  \/ DemoDeployed
  \/ DemoRegister
  \/ DemoAnalysis
  \/ DemoValidate
  \/ RequiredFieldsBlock
  \/ TrendBlock
  \/ PriceLevelsBlock
  \/ InsightsBlock
  \/ RiskAssessmentBlock
  \/ Return
  \/ DemoValidated
  \/ DemoRegisterValidator
  \/ DemoRequestValidation
  \/ DemoSubmitResponse
  \/ DemoAuthorizeFeedback
  \/ DemoSummary

SpecDemo == DemoInit /\ [][DemoNext]_vars

\* ------------------------------------------------------------------------
\* The checklist of the specification, stated on the record itself
\* ------------------------------------------------------------------------
HasKey(v, k) == v.type = "dict" /\ k \in DOMAIN v.items

HasLength(v) == v.type \in {"list", "str", "dict"}

LengthOf(v) ==
  CASE v.type = "list" -> Len(v.elems)
    [] v.type = "str" -> Len(v.chars)
    [] v.type = "dict" -> Cardinality(DOMAIN v.items)
    [] OTHER -> 0

TrackedFields == {"symbol", "timestamp", "analysis", "insights", "risk_assessment"}

Rule1(r) == \A k \in {"symbol", "timestamp", "analysis", "insights"} : HasKey(r, k)

Rule2(r) ==
  /\ HasKey(r, "analysis")
  /\ HasKey(r.items["analysis"], "trend")
  /\ HasKey(r.items["analysis"].items["trend"], "direction")
  /\ HasKey(r.items["analysis"].items["trend"], "confidence")

Rule3(r) ==
  /\ HasKey(r, "analysis")
  /\ HasKey(r.items["analysis"], "price_levels")
  /\ HasKey(r.items["analysis"].items["price_levels"], "support")
  /\ HasKey(r.items["analysis"].items["price_levels"], "resistance")

\* "present and its length >= 3": the length of whatever value has one
Rule4(r) ==
  /\ HasKey(r, "insights")
  /\ HasLength(r.items["insights"])
  /\ LengthOf(r.items["insights"]) >= 3

Rule5(r) == HasKey(r, "risk_assessment")

Satisfied(r) ==
  {i \in 1..5 : \/ i = 1 /\ Rule1(r)
                \/ i = 2 /\ Rule2(r)
                \/ i = 3 /\ Rule3(r)
                \/ i = 4 /\ Rule4(r)
                \/ i = 5 /\ Rule5(r)}

RuleWeights == <<25, 25, 20, 15, 15>>

RuleMessages ==
  <<"All required fields present",
    "Trend analysis well-structured",
    "Price levels properly identified",
    "Comprehensive insights provided",
    "Risk assessment included">>

WeightOf(rules) ==
  LET w(i) == IF i \in rules THEN RuleWeights[i] ELSE 0
  IN w(1) + w(2) + w(3) + w(4) + w(5)

MessagesOf(rules) ==
  LET In(i) == i \in rules
      sel == SelectSeq(<<1, 2, 3, 4, 5>>, In)
  IN [j \in 1..Len(sel) |-> RuleMessages[sel[j]]]

\* the rules whose message a feedback list carries
Awarded(fb) == {i \in 1..5 : \E j \in 1..Len(fb) : fb[j] = RuleMessages[i]}

\* the types of the data model: symbol and timestamp are strings, analysis,
\* trend, price_levels and risk_assessment mappings, insights a sequence of
\* strings
IsStrList(v) ==
  v.type = "list" /\ \A j \in 1..Len(v.elems) : v.elems[j].type = "str"

FieldIs(v, k, t) == HasKey(v, k) => v.items[k].type = t

WellTyped(r) ==
  /\ FieldIs(r, "symbol", "str")
  /\ FieldIs(r, "timestamp", "str")
  /\ FieldIs(r, "analysis", "dict")
  /\ HasKey(r, "analysis") =>
       /\ FieldIs(r.items["analysis"], "trend", "dict")
       /\ FieldIs(r.items["analysis"], "price_levels", "dict")
  /\ HasKey(r, "insights") => IsStrList(r.items["insights"])
  /\ FieldIs(r, "risk_assessment", "dict")
  /\ FieldIs(r, "recommendation", "dict")

Returned == pc = "returned"

\* ------------------------------------------------------------------------
\* Properties
\* ------------------------------------------------------------------------

\* C1: the score validate_analysis returns is an integer from 0 to 100.
ScoreInRange == Returned => validation_result.score \in 0..100

\* a call returned the top score
ScoreInRangeWitness == Returned /\ validation_result.score = 100

\* C2: the recommendation returned is "approved" exactly when the returned
\* score is at least 70 and "needs_improvement" otherwise.
RecommendationIffScore ==
  Returned =>
    /\ validation_result.recommendation \in {"approved", "needs_improvement"}
    /\ validation_result.recommendation = "approved"
         <=> validation_result.score >= 70
    /\ validation_result.recommendation = "needs_improvement"
         <=> validation_result.score < 70

\* a call returned a score on the threshold
RecommendationIffScoreWitness ==
  /\ Returned
  /\ validation_result.score = 70
  /\ validation_result.recommendation = "approved"

\* C3: validate_analysis returns for every input mapping, it never raises.
NeverRaises == pc # "raised"

\* C4: when validate_analysis returns for a record with a wrong-typed nested
\* field, the rule reading that field awards nothing: its message is not in
\* the feedback and the score is the weight of the other rules awarded.
WrongTypedRules(r) ==
  {i \in 2..4 :
     \/ /\ i = 2
        /\ HasKey(r, "analysis")
        /\ HasKey(r.items["analysis"], "trend")
        /\ r.items["analysis"].items["trend"].type # "dict"
     \/ /\ i = 3
        /\ HasKey(r, "analysis")
        /\ HasKey(r.items["analysis"], "price_levels")
        /\ r.items["analysis"].items["price_levels"].type # "dict"
     \/ /\ i = 4
        /\ HasKey(r, "insights")
        /\ ~IsStrList(r.items["insights"])}

WrongTypedAwardsNothing ==
  Returned =>
    /\ Awarded(validation_result.feedback) \cap WrongTypedRules(analysis_data) = {}
    /\ validation_result.score =
         WeightOf(Awarded(validation_result.feedback)
                    \ WrongTypedRules(analysis_data))

\* C5 as stated: a second call on the same record returns a result equal to
\* the first in every field.
SecondCallIdentical ==
  (Returned /\ prev_result.validator # "none") => validation_result = prev_result

\* C5 as amended: a second call on the same record returns a result equal
\* to the first in every field except timestamp, which is the clock reading
\* of each call.
SecondCallSameButTimestamp ==
  (Returned /\ prev_result.validator # "none") =>
    [validation_result EXCEPT !.timestamp = 0] = [prev_result EXCEPT !.timestamp = 0]

\* two calls on one record returned, at different clock readings
SecondCallWitness ==
  /\ Returned
  /\ prev_result.validator # "none"
  /\ validation_result.timestamp # prev_result.timestamp
  /\ validation_result.score = 70

\* C6: for a well-typed record the score is the sum of the weights of the
\* rules of the checklist the record satisfies, and the feedback is the
\* messages of exactly those rules in the order of the checklist.
WellTypedScoredByChecklist ==
  (Returned /\ WellTyped(analysis_data)) =>
    /\ validation_result.score = WeightOf(Satisfied(analysis_data))
    /\ validation_result.feedback = MessagesOf(Satisfied(analysis_data))

\* the example of the specification: the four required keys with an empty
\* analysis and no insights score 25 for rule 1 alone
WellTypedScoredByChecklistWitness ==
  /\ Returned
  /\ WellTyped(analysis_data)
  /\ DOMAIN analysis_data.items = {"symbol", "timestamp", "analysis", "insights"}
  /\ analysis_data.items["analysis"] = EmptyDict
  /\ analysis_data.items["insights"] = EmptyList
  /\ validation_result.score = 25
  /\ validation_result.feedback = <<"All required fields present">>

\* C7: a record with none of the tracked fields gets score 0, no feedback
\* and the recommendation "needs_improvement".
NoTrackedField(r) == DOMAIN r.items \cap TrackedFields = {}

NoTrackedFieldScoresZero ==
  NoTrackedField(analysis_data) =>
    /\ pc # "raised"
    /\ Returned =>
         /\ validation_result.score = 0
         /\ validation_result.feedback = <<>>
         /\ validation_result.recommendation = "needs_improvement"

\* a call returned for a record that has an untracked field only
NoTrackedFieldWitness ==
  /\ Returned
  /\ NoTrackedField(analysis_data)
  /\ DOMAIN analysis_data.items = {"recommendation"}
  /\ validation_result.score = 0

\* C8: a record satisfying all five rules gets score 100, the five messages
\* in the order of the checklist and the recommendation "approved".
AllRulesScoreHundred ==
  Satisfied(analysis_data) = 1..5 =>
    /\ pc # "raised"
    /\ Returned =>
         /\ validation_result.score = 100
         /\ validation_result.feedback = RuleMessages
         /\ Len(validation_result.feedback) = 5
         /\ validation_result.recommendation = "approved"

\* a call returned for a record satisfying the five rules
AllRulesWitness ==
  /\ Returned
  /\ WellTyped(analysis_data)
  /\ Satisfied(analysis_data) = 1..5
  /\ validation_result.score = 100

\* C9: for records A and B on which validate_analysis returns, if every
\* rule A satisfies is satisfied by B then the score of A is at most the
\* score of B.
Returns(r) == RunBody(r).exc = "none"

ScoreOf(r) == BuildResult(name, clock, RunBody(r)).score

ScoreMonotonic ==
  Returned =>
    \A B \in AnalysisRecords :
      (Returns(B) /\ Satisfied(analysis_data) \subseteq Satisfied(B)) =>
        validation_result.score <= ScoreOf(B)

\* C10: rule 4 awards its 15 points and its message exactly when the
\* insights key is present and the insights value has length at least 3;
\* a missing key and an empty sequence alike get nothing from rule 4.
InsightsRuleIffThreeOrMore ==
  [][pc = "insights" =>
       IF Rule4(analysis_data)
       THEN /\ locals'.score = locals.score + 15
            /\ locals'.feedback =
                 Append(locals.feedback, "Comprehensive insights provided")
       ELSE /\ locals'.score = locals.score
            /\ locals'.feedback = locals.feedback]_vars

\* rule 4 has just awarded a list of exactly three insights
InsightsRuleWitness ==
  /\ pc = "risk_assessment"
  /\ HasKey(analysis_data, "insights")
  /\ analysis_data.items["insights"] = ListOfLen(3)
  /\ locals.feedback # <<>>
  /\ locals.feedback[Len(locals.feedback)] = "Comprehensive insights provided"

\* C11: rule 5 awards its 15 points and its message exactly when the key
\* risk_assessment is in the record, whatever the value under it.
RiskRuleIffKeyPresent ==
  [][pc = "risk_assessment" =>
       IF "risk_assessment" \in DOMAIN analysis_data.items
       THEN /\ locals'.score = locals.score + 15
            /\ locals'.feedback = Append(locals.feedback, "Risk assessment included")
       ELSE /\ locals'.score = locals.score
            /\ locals'.feedback = locals.feedback]_vars

\* rule 5 has just awarded a record whose risk_assessment is None
RiskRuleWitness ==
  /\ pc = "result"
  /\ HasKey(analysis_data, "risk_assessment")
  /\ analysis_data.items["risk_assessment"] = PyNone
  /\ locals.feedback # <<>>
  /\ locals.feedback[Len(locals.feedback)] = "Risk assessment included"

\* C20: whenever validate_analysis returns, "approved" implies at least
\* three satisfied rules, four satisfied rules imply "approved",
\* criteria.quality implies criteria.completeness, and criteria.completeness
\* holds exactly when the recommendation is "approved".
ApprovalAgreesWithRuleCount ==
  Returned =>
    /\ validation_result.recommendation = "approved"
         => Cardinality(Satisfied(analysis_data)) >= 3
    /\ Cardinality(Satisfied(analysis_data)) >= 4
         => validation_result.recommendation = "approved"
    /\ validation_result.criteria.quality => validation_result.criteria.completeness
    /\ validation_result.criteria.completeness
         <=> validation_result.recommendation = "approved"

\* a method call was made in this step
Called(op) == call'.n # call.n /\ call'.op = op

\* C12: validate_analysis has no side effects: from its entry to its return
\* the input record, every field of the agent and the files stay as they
\* are, and no transaction is sent.
ValidateHasNoSideEffects ==
  [][pc \notin {"idle", "returned", "raised"} =>
       /\ analysis_data' = analysis_data
       /\ name' = name
       /\ agent' = agent
       /\ validator' = validator
       /\ transactions' = transactions
       /\ files' = files]_vars

\* a registered agent that has sent a transaction has validated a record
\* satisfying the five rules
ValidateHasNoSideEffectsWitness ==
  /\ Returned
  /\ call.op = "perform_task"
  /\ agent.agent_id # PyNone
  /\ transactions # <<>>
  /\ validation_result.score = 100

\* C16: agent_id and registration_uri are None until a register_identity
\* call succeeds; only register_identity changes them, only in a call that
\* got the receipt of its transaction and the AgentRegistered event, and
\* then it sets both; a call that raises leaves them as they were.
Registered(tx) == tx.fn = "registerAgent" /\ tx.status = "success"

IdentitySetOnlyByRegistration ==
  /\ []((\A i \in 1..Len(transactions) : ~Registered(transactions[i]))
          => (agent.agent_id = PyNone /\ agent.registration_uri = PyNone))
  /\ [][/\ (agent'.agent_id # agent.agent_id
              \/ agent'.registration_uri # agent.registration_uri)
           => /\ Called("register_identity")
              /\ call'.exc = "none"
              /\ Len(transactions') = Len(transactions) + 1
              /\ Registered(transactions'[Len(transactions')])
              /\ agent'.agent_id = call'.ret
              /\ agent'.agent_id.type = "int"
              /\ agent'.registration_uri =
                   transactions'[Len(transactions')].args.registration_uri
        /\ (call'.n # call.n /\ call'.exc # "none")
           => /\ agent'.agent_id = agent.agent_id
              /\ agent'.registration_uri = agent.registration_uri]_vars

\* a registration succeeded after one whose transaction was reverted
IdentitySetWitness ==
  /\ Len(transactions) = 2
  /\ transactions[1].fn = "registerAgent"
  /\ transactions[1].status = "reverted"
  /\ Registered(transactions[2])
  /\ call.op = "register_identity"
  /\ agent.agent_id = call.ret
  /\ agent.registration_uri # PyNone

\* C17: a method whose registry address is unset raises ValueError, and so
\* do authorize_feedback and request_validation on an agent without an
\* agent_id ("Agent not registered" once the address is there); no
\* transaction is sent and the agent is unchanged.
GuardRaised(msg) ==
  /\ call'.exc = "ValueError"
  /\ call'.msg = msg
  /\ transactions' = transactions
  /\ agent' = agent

SymbolOfTask(task_data) ==
  IF HasKey(task_data, "symbol") THEN task_data.items["symbol"] ELSE BTC

AnalysisOfTask(task_data) ==
  IF HasKey(task_data, "analysis") THEN task_data.items["analysis"] ELSE EmptyDict

PerformTaskDispatches ==
  /\ []((Returned /\ call.op = "perform_task"
           /\ call.args.task_type = "validate_analysis") =>
          /\ validation_result =
               BuildResult(name, validation_result.timestamp,
                           RunBody(AnalysisOfTask(call.args.task_data)))
          /\ ~HasKey(call.args.task_data, "analysis") =>
               /\ validation_result.score = 0
               /\ validation_result.recommendation = "needs_improvement")
  /\ [][Called("perform_task") =>
          /\ call'.args.task_type = "market_analysis" =>
               /\ call'.exc = "none"
               /\ call'.ret = analyze_market(SymbolOfTask(call'.args.task_data), clock')
               /\ UNCHANGED <<pc, analysis_data, locals, validation_result>>
          /\ call'.args.task_type = "validate_analysis" =>
               /\ call'.exc = "none"
               /\ pc' = "required_fields"
               /\ analysis_data' = AnalysisOfTask(call'.args.task_data)
               /\ locals' = InitLocals
               /\ clock' = clock
          /\ call'.args.task_type \notin {"market_analysis", "validate_analysis"} =>
               /\ call'.exc = "ValueError"
               /\ call'.ret = PyNone
               /\ UNCHANGED validateVars]_vars

\* perform_task validated without task data and returned score 0
PerformTaskWitness ==
  /\ Returned
  /\ call.op = "perform_task"
  /\ call.args.task_type = "validate_analysis"
  /\ call.args.task_data = PyNone
  /\ validation_result.score = 0
  /\ validation_result.recommendation = "needs_improvement"

\* the transactions of the given kind, oldest first
RECURSIVE TxsOf(_, _)
TxsOf(txs, fn) ==
  IF txs = <<>> THEN <<>>
  ELSE (IF Head(txs).fn = fn THEN <<Head(txs)>> ELSE <<>>) \o TxsOf(Tail(txs), fn)

HasEvent(kind) == \E i \in 1..Len(events) : events[i].ev = kind

\* C13: in a demo run that reached its summary, validate_analysis gave the
\* analysis of analyze_market("BTC") the score 96, the score the summary
\* prints, and 96 is the score submitted in the validation response.
SummaryScoreIsValidationScore ==
  demo.pc = "done" =>
    /\ events[Len(events)].score = 96
    /\ validation_result.score = 96
    /\ BuildResult(name, clock, RunBody(analyze_market(BTC, clock))).score = 96
    /\ TxsOf(transactions, "submitValidationResponse")[1].args.score = 96

\* C14: in a run of run_demo that reaches the summary the events are, in
\* this order and once each: identity, reputation and validation registry
\* deployed, main agent registered, analysis produced, analysis validated,
\* validator registered, validation requested by the main agent for the
\* validator's ID, response submitted by the validator for that request
\* with the locally computed score, feedback authorized for the validator's
\* address; and in every run the events so far are a beginning of that
\* order.
EventOrder ==
  <<"deployed", "deployed", "deployed", "registered", "analysed", "validated",
    "registered", "requested", "responded", "authorized", "summary">>

TransactionOrder ==
  <<"constructor", "constructor", "constructor", "registerAgent", "registerAgent",
    "requestValidation", "submitValidationResponse", "authorizeFeedback">>

DemoEventsInOrder ==
  /\ Len(events) <= Len(EventOrder)
  /\ \A i \in 1..Len(events) :
       \/ events[i].ev = EventOrder[i]
       \/ i = Len(events) /\ events[i].ev = "error"
  /\ HasEvent("summary") =>
       /\ Len(events) = Len(EventOrder)
       /\ \A i \in 1..3 : events[i].contract = Registries[i]
       /\ events[4].who = "Watch8004"
       /\ events[4].agent_id = agent.agent_id
       /\ events[5].symbol = BTC
       /\ events[6].score = validation_result.score
       /\ validation_result =
            BuildResult("Watch8004", validation_result.timestamp,
                        RunBody(analyze_market(BTC, clock)))
       /\ events[7].who = "ValidatorAgent"
       /\ events[7].agent_id = validator.agent_id
       /\ events[8].by = "Watch8004"
       /\ events[8].validator_id = events[7].agent_id
       /\ events[9].by = "ValidatorAgent"
       /\ events[9].request_id = events[8].request_id
       /\ events[9].score = events[6].score
       /\ events[10].by = "Watch8004"
       /\ events[10].client_address = AddressOf(validator_key)
       /\ Len(transactions) = Len(TransactionOrder)
       /\ \A i \in 1..Len(transactions) : transactions[i].fn = TransactionOrder[i]
       /\ \A i \in 1..6 : transactions[i].status = "success"
       /\ transactions[6].sender = agent.address
       /\ transactions[6].args.validator_id = validator.agent_id
       /\ transactions[7].sender = validator.address
       /\ transactions[7].args.request_id = events[8].request_id
       /\ transactions[7].args.score = validation_result.score
       /\ transactions[8].sender = agent.address
       /\ transactions[8].args.client_address = validator.address

\* the summary was printed after a response for request 1 of validator 0
DemoEventsWitness ==
  /\ demo.pc = "done"
  /\ HasEvent("summary")
  /\ validator.agent_id = PyInt(0)
  /\ demo.request_id = PyInt(1)
  /\ events[9].score = 100

\* C15: a failing step ends run_demo: the step that finds PRIVATE_KEY unset,
\* sees deploy_contracts raise or sees a method of an agent raise leaves
\* run_demo failed; after a failure nothing is executed, no transaction is
\* sent, no file is written and the summary is not printed.
FailureEndsDemo ==
  /\ [](demo.failed # "none" =>
          /\ demo.pc = "failed"
          /\ ~HasEvent("summary")
          /\ events[Len(events)] = Error(demo.failed))
  /\ [][/\ demo.failed # "none" =>
             UNCHANGED <<transactions, events, files, agent, validator, deploy,
                         pc, call>>
        /\ (demo.pc = "idle" /\ demo' # demo /\ KeyIsFalsy(demo'.private_key)) =>
             (demo'.failed = "private_key" /\ deploy' = DeployIdle)
        /\ (deploy.pc = "raised" /\ demo' # demo) => demo'.failed = "deploy"
        /\ (demo.pc = "validating" /\ pc = "raised" /\ demo' # demo) =>
             demo'.failed = "validation"
        /\ (call'.n # call.n /\ call'.exc # "none") =>
             demo'.failed =
               (IF demo.pc = "register" THEN "register"
                ELSE IF demo.pc = "authorize" THEN "authorize_feedback"
                ELSE "onchain_validation")]_vars

\* the authorization of feedback raised after seven transactions were sent
FailureEndsDemoWitness ==
  /\ demo.failed = "authorize_feedback"
  /\ call.op = "authorize_feedback"
  /\ call.exc # "none"
  /\ Len(events) = 10
  /\ Len(TxsOf(transactions, "submitValidationResponse")) = 1

\* C18: deploy_contracts deploys identity, reputation, validation in this
\* order, each after the receipt of the one before had status 1; when a
\* block raises no later registry is deployed and deployment.json is not
\* written; when it returns the mapping has exactly the three keys and
\* deployment.json records the same addresses.
Deployments == TxsOf(transactions, "constructor")

IndexOfRegistry(k) == CHOOSE i \in 1..3 : Registries[i] = k

RegistriesDeployedInOrder ==
  /\ [](/\ Len(Deployments) <= 3
        /\ \A i \in 1..Len(Deployments) :
             /\ Deployments[i].args.contract = ContractName(Registries[i])
             /\ i > 1 => Deployments[i - 1].status = "success"
        /\ (deploy.pc = "raised" /\ deploy.at \in {"identity", "reputation", "validation"}) =>
             /\ Len(Deployments) <= IndexOfRegistry(deploy.at)
             /\ files.deployment_json = PyNone
        /\ deploy.pc = "returned" =>
             /\ DOMAIN deploy.deployed.items = {"identity", "reputation", "validation"}
             /\ Len(Deployments) = 3
             /\ \A i \in 1..3 :
                  /\ Deployments[i].status = "success"
                  /\ deploy.deployed.items[Registries[i]] = Deployments[i].args.address
             /\ files.deployment_json.type = "dict"
             /\ files.deployment_json.items["contracts"] = deploy.deployed)
  /\ [][/\ deploy.pc = "raised" =>
             (Deployments' = Deployments /\ files' = files)
        /\ files'.deployment_json # files.deployment_json =>
             (deploy.pc = "write" /\ deploy'.pc = "returned")]_vars

\* deploy_contracts returned after writing deployment.json
RegistriesDeployedWitness ==
  /\ deploy.pc = "returned"
  /\ Len(Deployments) = 3
  /\ files.deployment_json # PyNone
  /\ files.abi = {"IdentityRegistry", "ReputationRegistry", "ValidationRegistry"}

====
